---- MODULE Spec2Model ----
(***************************************************************************)
(* Product-CRUD: the product-code generator (generateProductCode) and the  *)
(* catalogue handlers that call it and persist its result.                 *)
(*                                                                         *)
(* Strings are sequences of UTF-16 code units (numbers); indices into a    *)
(* string are 0-based as in the JavaScript source, see At and Slice.       *)
(***************************************************************************)
EXTENDS Integers, Sequences, FiniteSets, TLC

(***************************************************************************)
(* Bounds of the model.                                                    *)
(***************************************************************************)
\* longest product name given to a single run of generateProductCode
MaxNameLen == 4
\* number of concurrent callers of generateProductCode
NumCallers == 2

\* 'A', 'a', 'b', 'c'
Alphabet == {65, 97, 98, 99}
Names == UNION {[1..n -> Alphabet] : n \in 0..MaxNameLen}
\* "ab", "Ab", "AB", "ba", "iphone", "IPhone": the inputs of the concurrent callers
CallInputs ==
    {<<97, 98>>, <<65, 98>>, <<65, 66>>, <<98, 97>>,
     <<105, 112, 104, 111, 110, 101>>, <<73, 80, 104, 111, 110, 101>>}
Callers == 1..NumCallers

(***************************************************************************)
(* JavaScript string primitives.                                           *)
(***************************************************************************)
At(s, k) == s[k + 1]
\* String.prototype.slice(from, to) for 0 <= from: to is clamped to the length
Slice(s, from, to) == SubSeq(s, from + 1, IF to < Len(s) THEN to ELSE Len(s))
ToLowerCase(s) == [k \in 1..Len(s) |-> IF s[k] \in 65..90 THEN s[k] + 32 ELSE s[k]]

RECURSIVE Decimal(_)
Decimal(n) == IF n < 10 THEN <<48 + n>> ELSE Decimal(n \div 10) \o <<48 + (n % 10)>>

RECURSIVE Join(_)
Join(strs) == IF strs = <<>> THEN <<>> ELSE Head(strs) \o Join(Tail(strs))

(***************************************************************************)
(* SHA-1 of a message of at most 55 bytes (one block), as computed by      *)
(* crypto.createHash('sha1'). A 32-bit word is a pair <<high, low>> of     *)
(* 16-bit halves, TLC's integers being 32-bit signed.                      *)
(***************************************************************************)
Half == 65536

Bit(a, k) == (a \div (2 ^ k)) % 2
AndTable == [p \in 0..255 |->
    Bit(p, 0) * Bit(p, 4) + 2 * Bit(p, 1) * Bit(p, 5)
    + 4 * Bit(p, 2) * Bit(p, 6) + 8 * Bit(p, 3) * Bit(p, 7)]
And16(a, b) ==
    AndTable[(a % 16) * 16 + (b % 16)]
    + 16 * AndTable[((a \div 16) % 16) * 16 + ((b \div 16) % 16)]
    + 256 * AndTable[((a \div 256) % 16) * 16 + ((b \div 256) % 16)]
    + 4096 * AndTable[(a \div 4096) * 16 + (b \div 4096)]
Xor16(a, b) == a + b - 2 * And16(a, b)

WXor(x, y) == <<Xor16(x[1], y[1]), Xor16(x[2], y[2])>>
WAnd(x, y) == <<And16(x[1], y[1]), And16(x[2], y[2])>>
WNot(x) == <<Half - 1 - x[1], Half - 1 - x[2]>>
WOr(x, y) == WNot(WAnd(WNot(x), WNot(y)))
WAdd(x, y) ==
    LET lo == x[2] + y[2]
        hi == x[1] + y[1] + (lo \div Half)
    IN  <<hi % Half, lo % Half>>

RotlSmall(x, k) ==
    LET p == 2 ^ k
        q == 2 ^ (16 - k)
    IN  <<(x[1] % q) * p + (x[2] \div q), (x[2] % q) * p + (x[1] \div q)>>
Rotl(x, k) ==
    IF k < 16 THEN RotlSmall(x, k)
    ELSE IF k = 16 THEN <<x[2], x[1]>>
    ELSE RotlSmall(<<x[2], x[1]>>, k - 16)

Pad(msg) ==
    LET n == Len(msg)
    IN  [k \in 1..64 |->
            IF k <= n THEN msg[k]
            ELSE IF k = n + 1 THEN 128
            ELSE IF k = 64 THEN (8 * n) % 256
            ELSE IF k = 63 THEN (8 * n) \div 256
            ELSE 0]

Block(msg) ==
    LET p == Pad(msg)
    IN  [t \in 1..16 |-> <<p[4*t-3] * 256 + p[4*t-2], p[4*t-1] * 256 + p[4*t]>>]

Extend(w) ==
    LET n == Len(w) + 1
    IN  IF n > 80 THEN w
        ELSE Append(w, Rotl(WXor(WXor(w[n-3], w[n-8]), WXor(w[n-14], w[n-16])), 1))
RECURSIVE ExtendTo(_, _)
ExtendTo(w, n) == IF Len(w) >= n THEN w ELSE ExtendTo(Extend(w), n)
\* the 80 words of the message schedule, 16 at a time
Schedule(block) ==
    LET w32 == ExtendTo(block, 32)
        w48 == ExtendTo(w32, 48)
        w64 == ExtendTo(w48, 64)
    IN  IF Len(w32) = 32 /\ Len(w48) = 48 /\ Len(w64) = 64 THEN ExtendTo(w64, 80) ELSE block

F(t, b, c, d) ==
    IF t < 20 THEN WOr(WAnd(b, c), WAnd(WNot(b), d))
    ELSE IF t < 40 THEN WXor(WXor(b, c), d)
    ELSE IF t < 60 THEN WOr(WOr(WAnd(b, c), WAnd(b, d)), WAnd(c, d))
    ELSE WXor(WXor(b, c), d)

K(t) ==
    IF t < 20 THEN <<23170, 31129>>
    ELSE IF t < 40 THEN <<28377, 60321>>
    ELSE IF t < 60 THEN <<36635, 48348>>
    ELSE <<51810, 49622>>

H0 == <<26437, 8961>>
H1 == <<61389, 43913>>
H2 == <<39098, 56574>>
H3 == <<4146, 21622>>
H4 == <<50130, 57840>>

Round(s, w) ==
    IF s.t >= 80 THEN s
    ELSE [t |-> s.t + 1,
          a |-> WAdd(WAdd(WAdd(WAdd(Rotl(s.a, 5), F(s.t, s.b, s.c, s.d)), s.e), K(s.t)), w[s.t + 1]),
          b |-> s.a, c |-> Rotl(s.b, 30), d |-> s.c, e |-> s.d]
RECURSIVE RoundsTo(_, _, _)
RoundsTo(s, w, last) == IF s.t >= last THEN s ELSE RoundsTo(Round(s, w), w, last)
\* the 80 rounds, 10 at a time
Rounds(w) ==
    LET s0 == [t |-> 0, a |-> H0, b |-> H1, c |-> H2, d |-> H3, e |-> H4]
        s10 == RoundsTo(s0, w, 10)
        s20 == RoundsTo(s10, w, 20)
        s30 == RoundsTo(s20, w, 30)
        s40 == RoundsTo(s30, w, 40)
        s50 == RoundsTo(s40, w, 50)
        s60 == RoundsTo(s50, w, 60)
        s70 == RoundsTo(s60, w, 70)
    IN  IF /\ Len(w) = 80
           /\ s10.t = 10 /\ s20.t = 20 /\ s30.t = 30 /\ s40.t = 40
           /\ s50.t = 50 /\ s60.t = 60 /\ s70.t = 70
        THEN RoundsTo(s70, w, 80)
        ELSE s0

\* the first word of the digest: its first 8 hexadecimal digits
Sha1Word0(msg) == WAdd(H0, Rounds(Schedule(Block(msg))).a)

HexDigit(d) == IF d < 10 THEN 48 + d ELSE 87 + d
Hex4(h) == <<HexDigit(h \div 4096), HexDigit((h \div 256) % 16), HexDigit((h \div 16) % 16), HexDigit(h % 16)>>
\* digest('hex').slice(0, 8)
Hash8(msg) == LET w == Sha1Word0(msg) IN Hex4(w[1]) \o Hex4(w[2])


VARIABLES
    calls,      \* per caller: the invocation of generateProductCode it is running
    acc,        \* the scan's accumulators maxLen and substrings, per invocation
    sha1,       \* the digests of the names a behaviour hashes, tabulated once
    products,   \* the products collection: _id -> document
    categories, \* the categories collection: _id -> document
    nextId,     \* the next ObjectId the driver generates
    nReq,       \* the number of requests received
    pending,    \* per request: where its handler waits, and its locals
    responses,  \* per request: the response sent
    origin,     \* per inserted product: how its productCode came about
    deleted     \* per request: the id its deleteOne was given and its deletedCount

genVars == <<calls, acc>>
crudVars == <<products, categories, nextId, nReq, pending, responses, origin, deleted>>
vars ==
    <<calls, acc, sha1, products, categories, nextId, nReq, pending, responses, origin,
      deleted>>

\* crypto.createHash('sha1').update(s).digest('hex').slice(0, 8)
Sha1Hex8(s) == sha1[s]
Digests(names) == [s \in names |-> Hash8(s)]
\* the names a behaviour that is given `names` may hash
Hashable(names) == names \cup {ToLowerCase(s) : s \in names}

(***************************************************************************)
(* generateProductCode, piece by piece.                                    *)
(***************************************************************************)
NoAcc == [maxLen |-> 0, substrings |-> <<>>]

\* maxLen and substrings are locals of the invocation: each caller has its own
AccShared(c) == 1
AccOf(c) == c

\* the argument of the hash is the original name, not the lowercased one
HashOfLower(productName, lower) == lower
HashInput(productName, lower) == productName

\* the condition of the for loop
ForCondInclusive(i, lower) == i <= Len(lower)
ForCond(i, lower) == i < Len(lower)

\* the condition of the while loop
ExtendsOnEqual(lower, j) == j + 1 < Len(lower) /\ At(lower, j) <= At(lower, j + 1)
Extends(lower, j) == j + 1 < Len(lower) /\ At(lower, j) < At(lower, j + 1)

\* the body of the while loop, j++
WhileStuck(j) == j
WhileBody(j) == j + 1

\* the run lower[i..j] against the accumulators: a longer run resets the list,
\* a run of the same length is pushed, a shorter one is dropped
RecordNoTies(a, lower, i, j) ==
    LET len == j - i + 1
        run == [str |-> Slice(lower, i, j + 1), start |-> i]
    IN  IF len > a.maxLen THEN [maxLen |-> len, substrings |-> <<run>>] ELSE a
Record(a, lower, i, j) ==
    LET len == j - i + 1
        run == [str |-> Slice(lower, i, j + 1), start |-> i]
    IN  IF len > a.maxLen THEN [maxLen |-> len, substrings |-> <<run>>]
        ELSE IF len = a.maxLen THEN [a EXCEPT !.substrings = Append(@, run)]
        ELSE a

\* i = j at the end of the loop body, then the for loop's i++
AdvanceByOne(i, j) == i + 1
Advance(i, j) == j + 1

\* substrings.map(s => s.str).join('')
Concat(substrings) == Join([k \in 1..Len(substrings) |-> substrings[k].str])

\* substrings[0].start, a TypeError when substrings is empty
ReadNeverFails(substrings) == FALSE
ReadFails(substrings) == Len(substrings) = 0
FirstOfLastRun(substrings) == substrings[Len(substrings)].start
First(substrings) == substrings[1].start
Last(first, maxLen) == first + maxLen - 1

\* `${hash}-${first}${concat}${last}`
Template(hash, first, concat, last) ==
    hash \o <<45>> \o Decimal(first) \o concat \o Decimal(last)

(***************************************************************************)
(* generateProductCode as one evaluation: what a caller gets that runs it  *)
(* alone. threw is the TypeError of the read of substrings[0].start.       *)
(***************************************************************************)
RECURSIVE RunEnd(_, _)
RunEnd(lower, j) == IF Extends(lower, j) THEN RunEnd(lower, WhileBody(j)) ELSE j

RECURSIVE Scan(_, _, _)
Scan(lower, i, a) ==
    IF ForCond(i, lower)
    THEN LET j == RunEnd(lower, i)
         IN  Scan(lower, Advance(i, j), Record(a, lower, i, j))
    ELSE a

Threw == [threw |-> TRUE, value |-> <<>>]
Returned(str) == [threw |-> FALSE, value |-> str]

generateProductCode(productName) ==
    LET lower == ToLowerCase(productName)
        a == Scan(lower, 0, NoAcc)
        concat == Concat(a.substrings)
        first == First(a.substrings)
        last == Last(first, a.maxLen)
        hash == Sha1Hex8(HashInput(productName, lower))
    IN  IF ReadFails(a.substrings) THEN Threw
        ELSE Returned(Template(hash, first, concat, last))

(***************************************************************************)
(* generateProductCode step by step, one invocation per caller.            *)
(***************************************************************************)
NoCall ==
    [pc |-> "idle", productName |-> <<>>, lower |-> <<>>, i |-> 0, j |-> 0,
     concat |-> <<>>, first |-> 0, last |-> 0, hash |-> <<>>, result |-> <<>>,
     examined |-> <<>>]
NewCall(productName) == [NoCall EXCEPT !.pc = "call", !.productName = productName]

\* const lower = ...; let maxLen = 0, substrings = []; let i = 0
Enter(c) ==
    /\ calls[c].pc = "call"
    /\ calls' = [calls EXCEPT ![c].pc = "for",
                              ![c].lower = ToLowerCase(calls[c].productName),
                              ![c].i = 0]
    /\ acc' = [acc EXCEPT ![AccOf(c)] = NoAcc]
    /\ UNCHANGED <<sha1, crudVars>>

\* i < lower.length; let j = i
ForTest(c) ==
    /\ calls[c].pc = "for"
    /\ calls' = IF ForCond(calls[c].i, calls[c].lower)
                THEN [calls EXCEPT ![c].pc = "while", ![c].j = calls[c].i]
                ELSE [calls EXCEPT ![c].pc = "finish"]
    /\ UNCHANGED <<acc, sha1, crudVars>>

\* while (j + 1 < lower.length && lower[j] < lower[j + 1]) j++
WhileStep(c) ==
    /\ calls[c].pc = "while"
    /\ calls' = IF Extends(calls[c].lower, calls[c].j)
                THEN [calls EXCEPT ![c].j = WhileBody(calls[c].j)]
                ELSE [calls EXCEPT ![c].pc = "body"]
    /\ UNCHANGED <<acc, sha1, crudVars>>

\* the rest of the loop body and the for loop's i++; examined keeps the runs
\* the loop has looked at, for the properties about them
LoopBody(c) ==
    LET f == calls[c] IN
    /\ f.pc = "body"
    /\ acc' = [acc EXCEPT ![AccOf(c)] = Record(@, f.lower, f.i, f.j)]
    /\ calls' = [calls EXCEPT ![c].pc = "for",
                              ![c].i = Advance(f.i, f.j),
                              ![c].examined = Append(@, <<f.i, f.j>>)]
    /\ UNCHANGED <<sha1, crudVars>>

\* the four statements after the loop and the return
Finish(c) ==
    LET f == calls[c]
        a == acc[AccOf(c)]
        concat == Concat(a.substrings)
        first == First(a.substrings)
        last == Last(first, a.maxLen)
        hash == Sha1Hex8(HashInput(f.productName, f.lower))
    IN
    /\ f.pc = "finish"
    /\ calls' = IF ReadFails(a.substrings)
                THEN [calls EXCEPT ![c].pc = "threw", ![c].concat = concat]
                ELSE [calls EXCEPT ![c].pc = "done", ![c].concat = concat,
                                   ![c].first = first, ![c].last = last,
                                   ![c].hash = hash,
                                   ![c].result = Template(hash, first, concat, last)]
    /\ UNCHANGED <<acc, sha1, crudVars>>

\* the caller takes the result and calls again with another name
Again(c) ==
    /\ calls[c].pc \in {"done", "threw"}
    /\ \E name \in CallInputs : calls' = [calls EXCEPT ![c] = NewCall(name)]
    /\ UNCHANGED <<acc, sha1, crudVars>>


(***************************************************************************)
(* The catalogue: requests, documents and the handlers' pieces.            *)
(***************************************************************************)
\* requests a behaviour receives
MaxRequests == 3
\* identifiers 1..MaxId are the well-formed ones requests name
MaxId == 3

Requests == 1..MaxRequests
\* an identifier that is no 24-digit hexadecimal string
MalformedIds == {0}
IdParams == MalformedIds \cup 1..MaxId
\* in a body: malformed, the category the catalogue starts with, another id
CategoryParams == MalformedIds \cup {1, MaxId}
\* "ab", "Ab"
CrudNames == {<<97, 98>>, <<65, 98>>}
\* "x", a productCode a request body carries
ForgedCode == <<120>>

ObjectIdIsValid(id) == id \notin MalformedIds

Has(body, field) == field \in DOMAIN body
\* !name || !description || !price || !category
MissingRequired(body) ==
    \/ ~Has(body, "name") \/ body.name = <<>>
    \/ ~Has(body, "description") \/ body.description = ""
    \/ ~Has(body, "price") \/ body.price = 0
    \/ ~Has(body, "category")

CreateBodies ==
    {<<>>,
     [name |-> <<97, 98>>, price |-> 100, category |-> 1],
     [name |-> <<97, 98>>, description |-> "d", price |-> 0, category |-> 1],
     [name |-> <<>>, description |-> "d", price |-> 100, category |-> 1]}
    \cup {[name |-> n, description |-> "d", price |-> 100, category |-> c] :
            n \in CrudNames, c \in CategoryParams}

UpdateBodies ==
    {<<>>,
     [productCode |-> ForgedCode],
     [name |-> <<65, 98>>, productCode |-> ForgedCode],
     [category |-> 0],
     [status |-> "inactive", category |-> 1]}

\* the document createProduct builds
NewProduct(body, productCode) ==
    [name |-> body.name,
     description |-> body.description,
     price |-> body.price,
     discount |-> IF Has(body, "discount") THEN body.discount ELSE 0,
     image |-> IF Has(body, "image") THEN body.image ELSE "",
     status |-> IF Has(body, "status") THEN body.status ELSE "active",
     category |-> body.category,
     productCode |-> productCode]

\* the fields updateProduct takes from the body
AllowedFields == {"status", "description", "discount", "name", "price", "image", "category"}
AllowedAll(body) == body
Allowed(body) == [f \in DOMAIN body \cap AllowedFields |-> body[f]]

\* { $set: allowed }
SetFields(doc, allowed) ==
    [f \in DOMAIN doc \cup DOMAIN allowed |-> IF f \in DOMAIN allowed THEN allowed[f] ELSE doc[f]]

\* the unique index on productCode: insertOne fails with code 11000
DuplicateKey(docs, productCode) == \E id \in DOMAIN docs : docs[id].productCode = productCode

Insert(docs, id, doc) == [k \in DOMAIN docs \cup {id} |-> IF k = id THEN doc ELSE docs[k]]
Remove(docs, id) == [k \in DOMAIN docs \ {id} |-> docs[k]]

NoRequest == [op |-> "none", pc |-> "idle", id |-> 0, body |-> <<>>, found |-> FALSE]
NoResponse ==
    [op |-> "none", status |-> 0, malformed |-> FALSE, notFound |-> FALSE,
     duplicate |-> FALSE]
\* malformed, notFound, duplicate: what the request ran into, for the properties
Response(op, status, malformed, notFound, duplicate) ==
    [op |-> op, status |-> status, malformed |-> malformed, notFound |-> notFound,
     duplicate |-> duplicate]

Received(r) == r = nReq + 1 /\ r \in Requests
Respond(r, resp) ==
    /\ responses' = [responses EXCEPT ![r] = resp]
    /\ pending' = [pending EXCEPT ![r] = NoRequest]
Await(r, op, pc, id, body, found) ==
    /\ pending' = [pending EXCEPT ![r] =
            [op |-> op, pc |-> pc, id |-> id, body |-> body, found |-> found]]
    /\ UNCHANGED responses

(***************************************************************************)
(* createProduct                                                           *)
(***************************************************************************)
\* up to the lookup of the category
createProduct_findOne(r, body) ==
    /\ Received(r)
    /\ nReq' = r
    /\ IF DOMAIN body = {}
       THEN Respond(r, Response("createProduct", 400, FALSE, FALSE, FALSE))
       ELSE IF MissingRequired(body)
       THEN Respond(r, Response("createProduct", 400, FALSE, FALSE, FALSE))
       ELSE IF ~ObjectIdIsValid(body.category)
       \* new ObjectId(category) throws, the catch block answers
       THEN Respond(r, Response("createProduct", 500, TRUE, FALSE, FALSE))
       ELSE Await(r, "createProduct", "insert", 0, body, body.category \in DOMAIN categories)
    /\ UNCHANGED <<products, categories, nextId, origin, calls, acc, sha1, deleted>>

\* from the result of the lookup to the response
createProduct_insertOne(r) ==
    LET req == pending[r]
        code == generateProductCode(req.body.name)
    IN
    /\ req.op = "createProduct" /\ req.pc = "insert"
    /\ IF ~req.found
       THEN /\ Respond(r, Response("createProduct", 400, FALSE, TRUE, FALSE))
            /\ UNCHANGED <<products, nextId, origin>>
       ELSE IF code.threw
       THEN /\ Respond(r, Response("createProduct", 500, FALSE, FALSE, FALSE))
            /\ UNCHANGED <<products, nextId, origin>>
       ELSE IF DuplicateKey(products, code.value)
       THEN /\ Respond(r, Response("createProduct", 409, FALSE, FALSE, TRUE))
            /\ UNCHANGED <<products, nextId, origin>>
       ELSE /\ products' = Insert(products, nextId, NewProduct(req.body, code.value))
            /\ origin' = Insert(origin, nextId,
                    [name |-> req.body.name, stored |-> code.value, calls |-> 1])
            /\ nextId' = nextId + 1
            /\ Respond(r, Response("createProduct", 201, FALSE, FALSE, FALSE))
    /\ UNCHANGED <<categories, nReq, calls, acc, sha1, deleted>>

(***************************************************************************)
(* updateProduct: findOneAndUpdate is the one write; the category lookup   *)
(* that follows only fills categoryName.                                   *)
(***************************************************************************)
updateProduct(r, id, body) ==
    LET allowed == Allowed(body) IN
    /\ Received(r)
    /\ nReq' = r
    /\ IF ~ObjectIdIsValid(id)
       THEN /\ Respond(r, Response("updateProduct", 400, TRUE, FALSE, FALSE))
            /\ UNCHANGED products
       ELSE IF DOMAIN body = {}
       THEN /\ Respond(r, Response("updateProduct", 400, FALSE, FALSE, FALSE))
            /\ UNCHANGED products
       ELSE IF Has(allowed, "category") /\ ~ObjectIdIsValid(allowed.category)
       THEN /\ Respond(r, Response("updateProduct", 400, TRUE, FALSE, FALSE))
            /\ UNCHANGED products
       ELSE IF DOMAIN allowed = {}
       THEN /\ Respond(r, Response("updateProduct", 400, FALSE, FALSE, FALSE))
            /\ UNCHANGED products
       ELSE IF id \notin DOMAIN products
       THEN /\ Respond(r, Response("updateProduct", 404, FALSE, TRUE, FALSE))
            /\ UNCHANGED products
       ELSE /\ products' = [products EXCEPT ![id] = SetFields(@, allowed)]
            /\ Respond(r, Response("updateProduct", 200, FALSE, FALSE, FALSE))
    /\ UNCHANGED <<categories, nextId, origin, calls, acc, sha1, deleted>>

(***************************************************************************)
(* deleteProduct                                                           *)
(***************************************************************************)
\* up to the result of findOne
deleteProduct_findOne(r, id) ==
    /\ Received(r)
    /\ nReq' = r
    /\ IF ~ObjectIdIsValid(id)
       THEN Respond(r, Response("deleteProduct", 400, TRUE, FALSE, FALSE))
       ELSE IF id \notin DOMAIN products
       THEN Respond(r, Response("deleteProduct", 404, FALSE, TRUE, FALSE))
       ELSE Await(r, "deleteProduct", "deleteOne", id, <<>>, TRUE)
    /\ UNCHANGED <<products, categories, nextId, origin, calls, acc, sha1, deleted>>

\* result.deletedCount of deleteOne({ _id }): the documents it removed
DeletedCount(docs, id) == IF id \in DOMAIN docs THEN 1 ELSE 0
\* result.deletedCount === 1
DeletedAny(deletedCount) == TRUE
DeletedOne(deletedCount) == deletedCount = 1
NoDelete == [id |-> 0, deletedCount |-> 0]

\* deleteOne and the response
deleteProduct_deleteOne(r) ==
    LET req == pending[r]
        deletedCount == DeletedCount(products, req.id)
    IN
    /\ req.op = "deleteProduct" /\ req.pc = "deleteOne"
    /\ products' = Remove(products, req.id)
    /\ deleted' = [deleted EXCEPT ![r] = [id |-> req.id, deletedCount |-> deletedCount]]
    /\ IF DeletedOne(deletedCount)
       THEN Respond(r, Response("deleteProduct", 200, FALSE, FALSE, FALSE))
       ELSE Respond(r, Response("deleteProduct", 404, FALSE, TRUE, FALSE))
    /\ UNCHANGED <<categories, nextId, nReq, origin, calls, acc, sha1>>

(***************************************************************************)
(* The two reads that take an identifier.                                  *)
(***************************************************************************)
getProductsByCategory(r, categoryId) ==
    /\ Received(r)
    /\ nReq' = r
    /\ IF ~ObjectIdIsValid(categoryId)
       THEN Respond(r, Response("getProductsByCategory", 400, TRUE, FALSE, FALSE))
       ELSE IF categoryId \notin DOMAIN categories
       THEN Respond(r, Response("getProductsByCategory", 404, FALSE, TRUE, FALSE))
       ELSE Respond(r, Response("getProductsByCategory", 200, FALSE, FALSE, FALSE))
    /\ UNCHANGED <<products, categories, nextId, origin, calls, acc, sha1, deleted>>

getProduct(r, id) ==
    /\ Received(r)
    /\ nReq' = r
    /\ IF ~ObjectIdIsValid(id)
       THEN Respond(r, Response("getProduct", 400, TRUE, FALSE, FALSE))
       ELSE IF id \notin DOMAIN products
       THEN Respond(r, Response("getProduct", 404, FALSE, TRUE, FALSE))
       ELSE Respond(r, Response("getProduct", 200, FALSE, FALSE, FALSE))
    /\ UNCHANGED <<products, categories, nextId, origin, calls, acc, sha1, deleted>>

(***************************************************************************)
(* POST /debug/populate                                                    *)
(***************************************************************************)
\* the six categories of the sample data
SampleCategories ==
    <<[name |-> "Electronics", description |-> "Electronic devices and gadgets"],
      [name |-> "Clothing", description |-> "Apparel and fashion items"],
      [name |-> "Books", description |-> "Books and educational materials"],
      [name |-> "Home & Garden", description |-> "Home improvement and gardening"],
      [name |-> "Sports", description |-> "Sports equipment and accessories"],
      [name |-> "Beauty", description |-> "Beauty and personal care products"]>>

\* the twelve products of the sample data: name and productCode as code units,
\* price in hundredths, category as an index into the inserted categories
SampleProducts ==
    <<\* "iPhone 15 Pro", "IPH-15P-001"
      [name |-> <<105, 80, 104, 111, 110, 101, 32, 49, 53, 32, 80, 114, 111>>,
       description |-> "Latest Apple smartphone with advanced features and A17 Pro chip",
       price |-> 99900, discount |-> 10, image |-> "iphone15-pro.jpg", status |-> "active",
       category |-> 1,
       productCode |-> <<73, 80, 72, 45, 49, 53, 80, 45, 48, 48, 49>>],
      \* "Samsung Galaxy S24 Ultra", "SAM-S24U-001"
      [name |-> <<83, 97, 109, 115, 117, 110, 103, 32, 71, 97, 108, 97, 120, 121, 32, 83, 50, 52, 32, 85, 108, 116, 114, 97>>,
       description |-> "High-end Android smartphone with S Pen and AI features",
       price |-> 119900, discount |-> 15, image |-> "galaxy-s24-ultra.jpg", status |-> "active",
       category |-> 1,
       productCode |-> <<83, 65, 77, 45, 83, 50, 52, 85, 45, 48, 48, 49>>],
      \* "MacBook Pro 14-inch", "APP-MBP14-001"
      [name |-> <<77, 97, 99, 66, 111, 111, 107, 32, 80, 114, 111, 32, 49, 52, 45, 105, 110, 99, 104>>,
       description |-> "Apple MacBook Pro with M3 chip for professional work",
       price |-> 199900, discount |-> 5, image |-> "macbook-pro-14.jpg", status |-> "active",
       category |-> 1,
       productCode |-> <<65, 80, 80, 45, 77, 66, 80, 49, 52, 45, 48, 48, 49>>],
      \* "Nike Air Max 270", "NIK-AM270-001"
      [name |-> <<78, 105, 107, 101, 32, 65, 105, 114, 32, 77, 97, 120, 32, 50, 55, 48>>,
       description |-> "Comfortable running shoes with Air Max technology",
       price |-> 15000, discount |-> 25, image |-> "nike-air-max-270.jpg", status |-> "active",
       category |-> 2,
       productCode |-> <<78, 73, 75, 45, 65, 77, 50, 55, 48, 45, 48, 48, 49>>],
      \* "Adidas Ultraboost 22", "ADI-UB22-001"
      [name |-> <<65, 100, 105, 100, 97, 115, 32, 85, 108, 116, 114, 97, 98, 111, 111, 115, 116, 32, 50, 50>>,
       description |-> "Premium running shoes with Boost technology",
       price |-> 18000, discount |-> 20, image |-> "adidas-ultraboost-22.jpg", status |-> "active",
       category |-> 2,
       productCode |-> <<65, 68, 73, 45, 85, 66, 50, 50, 45, 48, 48, 49>>],
      \* "JavaScript: The Definitive Guide", "ORE-JDG-001"
      [name |-> <<74, 97, 118, 97, 83, 99, 114, 105, 112, 116, 58, 32, 84, 104, 101, 32, 68, 101, 102, 105, 110, 105, 116, 105, 118, 101, 32, 71, 117, 105, 100, 101>>,
       description |-> "Comprehensive guide to JavaScript programming",
       price |-> 5999, discount |-> 0, image |-> "js-definitive-guide.jpg", status |-> "active",
       category |-> 3,
       productCode |-> <<79, 82, 69, 45, 74, 68, 71, 45, 48, 48, 49>>],
      \* "Clean Code", "PH-CC-001"
      [name |-> <<67, 108, 101, 97, 110, 32, 67, 111, 100, 101>>,
       description |-> "A handbook of agile software craftsmanship",
       price |-> 4999, discount |-> 10, image |-> "clean-code.jpg", status |-> "active",
       category |-> 3,
       productCode |-> <<80, 72, 45, 67, 67, 45, 48, 48, 49>>],
      \* "Robot Vacuum Cleaner", "RV-SMART-001"
      [name |-> <<82, 111, 98, 111, 116, 32, 86, 97, 99, 117, 117, 109, 32, 67, 108, 101, 97, 110, 101, 114>>,
       description |-> "Smart robot vacuum with mapping and app control",
       price |-> 29900, discount |-> 30, image |-> "robot-vacuum.jpg", status |-> "active",
       category |-> 4,
       productCode |-> <<82, 86, 45, 83, 77, 65, 82, 84, 45, 48, 48, 49>>],
      \* "Garden Tool Set", "GTS-10P-001"
      [name |-> <<71, 97, 114, 100, 101, 110, 32, 84, 111, 111, 108, 32, 83, 101, 116>>,
       description |-> "Complete 10-piece garden tool set for all your gardening needs",
       price |-> 7999, discount |-> 15, image |-> "garden-tool-set.jpg", status |-> "active",
       category |-> 4,
       productCode |-> <<71, 84, 83, 45, 49, 48, 80, 45, 48, 48, 49>>],
      \* "Yoga Mat Premium", "YM-PREM-001"
      [name |-> <<89, 111, 103, 97, 32, 77, 97, 116, 32, 80, 114, 101, 109, 105, 117, 109>>,
       description |-> "High-quality non-slip yoga mat for all fitness levels",
       price |-> 4999, discount |-> 5, image |-> "yoga-mat-premium.jpg", status |-> "active",
       category |-> 5,
       productCode |-> <<89, 77, 45, 80, 82, 69, 77, 45, 48, 48, 49>>],
      \* "Dumbbell Set", "DB-ADJ-001"
      [name |-> <<68, 117, 109, 98, 98, 101, 108, 108, 32, 83, 101, 116>>,
       description |-> "Adjustable dumbbell set for home workouts",
       price |-> 19900, discount |-> 20, image |-> "dumbbell-set.jpg", status |-> "active",
       category |-> 5,
       productCode |-> <<68, 66, 45, 65, 68, 74, 45, 48, 48, 49>>],
      \* "Skincare Set", "SC-SET-001"
      [name |-> <<83, 107, 105, 110, 99, 97, 114, 101, 32, 83, 101, 116>>,
       description |-> "Complete skincare routine with cleanser, serum, and moisturizer",
       price |-> 8999, discount |-> 25, image |-> "skincare-set.jpg", status |-> "active",
       category |-> 6,
       productCode |-> <<83, 67, 45, 83, 69, 84, 45, 48, 48, 49>>]>>

\* categoriesCollection.insertMany(categories)
populate_categories(r) ==
    /\ Received(r)
    /\ nReq' = r
    /\ categories' =
            [k \in DOMAIN categories \cup nextId..(nextId + Len(SampleCategories) - 1) |->
                IF k \in DOMAIN categories THEN categories[k]
                ELSE SampleCategories[k - nextId + 1]]
    /\ nextId' = nextId + Len(SampleCategories)
    \* id: the first of the inserted categories' ids
    /\ Await(r, "populate", "products", nextId, <<>>, TRUE)
    /\ UNCHANGED <<products, origin, calls, acc, sha1, deleted>>

\* productsCollection.insertMany(products) and the response; the insertion is
\* ordered, and its first document hits the unique index when one does
populate_products(r) ==
    LET req == pending[r]
        doc(k) == [SampleProducts[k] EXCEPT !.category = req.id + @ - 1]
        ids == nextId..(nextId + Len(SampleProducts) - 1)
    IN
    /\ req.op = "populate" /\ req.pc = "products"
    /\ IF \E k \in 1..Len(SampleProducts) :
            DuplicateKey(products, SampleProducts[k].productCode)
       THEN /\ Respond(r, Response("populate", 500, FALSE, FALSE, TRUE))
            /\ UNCHANGED <<products, origin, nextId>>
       ELSE /\ products' = [k \in DOMAIN products \cup ids |->
                    IF k \in DOMAIN products THEN products[k] ELSE doc(k - nextId + 1)]
            /\ origin' = [k \in DOMAIN origin \cup ids |->
                    IF k \in DOMAIN origin THEN origin[k]
                    ELSE [name |-> SampleProducts[k - nextId + 1].name,
                          stored |-> SampleProducts[k - nextId + 1].productCode,
                          calls |-> 0]]
            /\ nextId' = nextId + Len(SampleProducts)
            /\ Respond(r, Response("populate", 200, FALSE, FALSE, FALSE))
    /\ UNCHANGED <<categories, nReq, calls, acc, sha1, deleted>>

(***************************************************************************)
(* Specifications.                                                         *)
(***************************************************************************)
\* no request is made
NoCatalogue ==
    /\ products = <<>> /\ categories = <<>> /\ origin = <<>>
    /\ nextId = 1 /\ nReq = MaxRequests
    /\ pending = [r \in Requests |-> NoRequest]
    /\ responses = [r \in Requests |-> NoResponse]
    /\ deleted = [r \in Requests |-> NoDelete]

\* a catalogue of one category and one product, made by createProduct from "ab"
Init ==
    /\ sha1 = Digests(Hashable(CrudNames))
    /\ categories = Insert(<<>>, 1, [name |-> "Electronics", description |-> "d"])
    /\ LET body == [name |-> <<97, 98>>, description |-> "d", price |-> 100, category |-> 1]
           code == generateProductCode(body.name).value
       IN  /\ products = Insert(<<>>, 2, NewProduct(body, code))
           /\ origin = Insert(<<>>, 2, [name |-> body.name, stored |-> code, calls |-> 1])
    /\ nextId = 3
    /\ nReq = 0
    /\ pending = [r \in Requests |-> NoRequest]
    /\ responses = [r \in Requests |-> NoResponse]
    /\ deleted = [r \in Requests |-> NoDelete]
    /\ calls = [c \in Callers |-> NoCall]
    /\ acc = [c \in Callers |-> NoAcc]

Next ==
    \E r \in Requests :
        \/ \E body \in CreateBodies : createProduct_findOne(r, body)
        \/ createProduct_insertOne(r)
        \/ \E id \in IdParams, body \in UpdateBodies : updateProduct(r, id, body)
        \/ \E id \in IdParams : deleteProduct_findOne(r, id)
        \/ deleteProduct_deleteOne(r)
        \/ \E id \in IdParams : getProductsByCategory(r, id)
        \/ \E id \in IdParams : getProduct(r, id)
        \/ populate_categories(r)
        \/ populate_products(r)

Spec == Init /\ [][Next]_vars

InitGen ==
    \E name \in Names :
        /\ calls = [c \in Callers |-> IF c = 1 THEN NewCall(name) ELSE NoCall]
        /\ acc = [c \in Callers |-> NoAcc]
        /\ sha1 = Digests({name})
        /\ NoCatalogue

InitCalls ==
    /\ sha1 = Digests(Hashable(CallInputs))
    /\ calls \in [Callers -> {NewCall(name) : name \in CallInputs}]
    /\ acc = [c \in Callers |-> NoAcc]
    /\ NoCatalogue

NextGen ==
    \E c \in Callers :
        \/ Enter(c)
        \/ ForTest(c)
        \/ WhileStep(c)
        \/ LoopBody(c)
        \/ Finish(c)

NextCalls ==
    \/ NextGen
    \/ \E c \in Callers : Again(c)

\* a single invocation
SpecGen == InitGen /\ [][NextGen]_vars
\* the invocation runs to its end: the function is synchronous
FairSpecGen == SpecGen /\ WF_vars(NextGen)
\* invocations of several callers, interleaved, each caller calling again and again
SpecCalls == InitCalls /\ [][NextCalls]_vars

(***************************************************************************)
(* The runs of a string, stated without the scan.                          *)
(***************************************************************************)
IsMaximalRun(s, a, b) ==
    /\ 0 <= a /\ a <= b /\ b < Len(s)
    /\ \A k \in a..(b - 1) : At(s, k) < At(s, k + 1)
    /\ a = 0 \/ At(s, a - 1) >= At(s, a)
    /\ b = Len(s) - 1 \/ At(s, b) >= At(s, b + 1)
MaximalRuns(s) ==
    {r \in (0..(Len(s) - 1)) \X (0..(Len(s) - 1)) : IsMaximalRun(s, r[1], r[2])}
RunLen(r) == r[2] - r[1] + 1
GreatestLen(s) ==
    IF MaximalRuns(s) = {} THEN 0
    ELSE CHOOSE n \in {RunLen(r) : r \in MaximalRuns(s)} :
            \A r \in MaximalRuns(s) : RunLen(r) <= n
TiedRuns(s) == {r \in MaximalRuns(s) : RunLen(r) = GreatestLen(s)}
Leftmost(R) == CHOOSE r \in R : \A q \in R : r[1] <= q[1]
RECURSIVE ConcatRuns(_, _)
ConcatRuns(s, R) ==
    IF R = {} THEN <<>>
    ELSE Slice(s, Leftmost(R)[1], Leftmost(R)[2] + 1) \o ConcatRuns(s, R \ {Leftmost(R)})

\* the parts of a returned code: 8 digits, the dash, and the rest
HashPrefix(code) == SubSeq(code, 1, 8)
AfterDash(code) == SubSeq(code, 10, Len(code))
Returns(c) == calls[c].pc = "done"
NonEmptyCall(c) == calls[c].pc # "idle" /\ calls[c].productName # <<>>

\* C1: the concat part of the result of a non-empty name is the concatenation,
\* by start index, of exactly the maximal strictly-increasing runs of the
\* lowercased name that have the greatest run length.
C1_ConcatIsTiedRuns ==
    \A c \in Callers :
        Returns(c) /\ NonEmptyCall(c) =>
            LET f == calls[c]
                want == ConcatRuns(ToLowerCase(f.productName),
                                   TiedRuns(ToLowerCase(f.productName)))
            IN  /\ f.concat = want
                /\ SubSeq(f.result, 10 + Len(Decimal(f.first)),
                          Len(f.result) - Len(Decimal(f.last))) = want

\* two or more runs of length 2 or more tie for the greatest length
C1_Witness ==
    \E c \in Callers :
        /\ Returns(c)
        /\ Cardinality(TiedRuns(calls[c].lower)) >= 2
        /\ GreatestLen(calls[c].lower) >= 2

\* C2: first is the start index of the leftmost run among those tied for the
\* greatest length and last = first + maxLen - 1 is the end of that same run,
\* however many tied runs follow it.
C2_FirstLastOfLeftmost ==
    \A c \in Callers :
        Returns(c) /\ NonEmptyCall(c) =>
            LET f == calls[c]
                s == ToLowerCase(f.productName)
                run == Leftmost(TiedRuns(s))
            IN  /\ f.first = run[1]
                /\ f.last = run[2]
                /\ f.last = f.first + acc[AccOf(c)].maxLen - 1
                /\ acc[AccOf(c)].maxLen = GreatestLen(s)
                /\ f.result = f.hash \o <<45>> \o Decimal(f.first) \o f.concat
                                \o Decimal(f.last)

\* a tied run follows the leftmost one and ends after last
C2_Witness ==
    \E c \in Callers :
        /\ Returns(c)
        /\ \E r \in TiedRuns(calls[c].lower) :
                r[1] > calls[c].first /\ r[2] > calls[c].last

\* C3: on a non-empty name the scan ends and the function returns a string;
\* when the scan has ended the list of tied runs is non-empty and maxLen >= 1.
C3_TotalOnNonEmpty ==
    \A c \in Callers :
        /\ (calls[c].pc = "call" /\ calls[c].productName # <<>>)
                ~> (Returns(c) /\ Len(calls[c].result) >= 12)
        /\ [](NonEmptyCall(c) =>
                /\ calls[c].pc # "threw"
                /\ calls[c].pc \in {"finish", "done"} =>
                        /\ acc[AccOf(c)].maxLen >= 1
                        /\ acc[AccOf(c)].substrings # <<>>)

\* a name of the greatest length has been scanned and its code returned
C3_Witness ==
    \E c \in Callers : Returns(c) /\ Len(calls[c].productName) = MaxNameLen

\* C4: on the empty string the loop body never runs, the scan ends with
\* maxLen = 0 and no run, the read of substrings[0].start throws and no code
\* is returned.
C4_EmptyThrows ==
    \A c \in Callers :
        calls[c].pc # "idle" /\ calls[c].productName = <<>> =>
            /\ calls[c].pc \in {"call", "for", "finish", "threw"}
            /\ calls[c].result = <<>>
            /\ calls[c].pc \in {"finish", "threw"} =>
                    acc[AccOf(c)] = [maxLen |-> 0, substrings |-> <<>>]
            /\ generateProductCode(<<>>) = Threw

\* the invocation on the empty string has thrown
C4_Witness ==
    \E c \in Callers : calls[c].pc = "threw" /\ calls[c].productName = <<>>

\* C5: two names equal after lowercasing get the same first, concat and last,
\* hence the same text after the dash; the hash prefix is the digest of the
\* name as given, and differs between two such names that differ.
C5_CaseFoldsScanNotHash ==
    \A c, d \in Callers :
        /\ Returns(c) /\ Returns(d)
        /\ ToLowerCase(calls[c].productName) = ToLowerCase(calls[d].productName)
        => /\ calls[c].first = calls[d].first
           /\ calls[c].concat = calls[d].concat
           /\ calls[c].last = calls[d].last
           /\ AfterDash(calls[c].result) = AfterDash(calls[d].result)
           /\ HashPrefix(calls[c].result) = Sha1Hex8(calls[c].productName)
           /\ calls[c].productName # calls[d].productName =>
                    HashPrefix(calls[c].result) # HashPrefix(calls[d].result)

\* two callers have returned the codes of two names that differ only in case
C5_Witness ==
    \E c, d \in Callers :
        /\ Returns(c) /\ Returns(d)
        /\ calls[c].productName # calls[d].productName
        /\ calls[c].lower = calls[d].lower

\* C9: whatever the interleaving with other invocations and whatever was
\* called before, an invocation returns (or throws) what generateProductCode
\* gives on the same name when run alone.
C9_ResultDependsOnArgumentOnly ==
    \A c \in Callers :
        /\ Returns(c) =>
                generateProductCode(calls[c].productName) = Returned(calls[c].result)
        /\ calls[c].pc = "threw" =>
                generateProductCode(calls[c].productName) = Threw

\* a caller has returned while another, given another name, is in the middle
\* of its scan
C9_Witness ==
    \E c, d \in Callers :
        /\ Returns(c)
        /\ calls[d].pc = "body" /\ calls[d].examined # <<>>
        /\ calls[c].productName # calls[d].productName

\* C10: the runs the scan examines are maximal strictly-increasing runs, the
\* first starts at 0, each next one starts right after the previous one's end
\* and, the scan over, the last ends at n - 1: every index is in exactly one.
C10_RunsPartitionTheName ==
    \A c \in Callers :
        NonEmptyCall(c) /\ calls[c].pc # "call" =>
            LET f == calls[c]
                e == f.examined
                n == Len(f.lower)
            IN  /\ \A k \in 1..Len(e) :
                        /\ IsMaximalRun(f.lower, e[k][1], e[k][2])
                        /\ e[k][1] = IF k = 1 THEN 0 ELSE e[k - 1][2] + 1
                /\ f.pc \in {"while", "body"} =>
                        f.i = IF e = <<>> THEN 0 ELSE e[Len(e)][2] + 1
                /\ f.pc \in {"finish", "done", "threw"} =>
                        /\ e # <<>> /\ e[Len(e)][2] = n - 1
                        /\ \A x \in 0..(n - 1) :
                            Cardinality({k \in 1..Len(e) : e[k][1] <= x /\ x <= e[k][2]}) = 1

\* the scan is over after three or more runs, one of them longer than 1
C10_Witness ==
    \E c \in Callers :
        /\ Returns(c)
        /\ Len(calls[c].examined) >= 3
        /\ \E k \in 1..Len(calls[c].examined) :
                calls[c].examined[k][2] > calls[c].examined[k][1]

\* C6: every product inserted got its productCode from one call of
\* generateProductCode on the submitted name, made by the request that
\* inserted it, and stores that result as returned.
C6_EveryInsertUsesGenerator ==
    \A id \in DOMAIN origin :
        /\ origin[id].calls = 1
        /\ Returned(origin[id].stored) = generateProductCode(origin[id].name)

\* C7: whatever updateProduct requests were served, a stored product has the
\* productCode it was inserted with.
C7_ProductCodeImmutable ==
    \A id \in DOMAIN products : products[id].productCode = origin[id].stored

\* an update that carried a productCode has changed the name of a product
C7_Witness ==
    \E id \in DOMAIN products, r \in Requests :
        /\ products[id].name # origin[id].name
        /\ responses[r].op = "updateProduct" /\ responses[r].status = 200

\* C8: a malformed identifier is answered 400, a lookup that finds nothing
\* 404 and a duplicate product code 409.
C8_FailureClassesKeepTheirStatus ==
    \A r \in Requests :
        /\ responses[r].malformed => responses[r].status = 400
        /\ responses[r].notFound => responses[r].status = 404
        /\ responses[r].duplicate => responses[r].status = 409

\* the requests whose deleteOne was given id: each found the product by findOne
DeleteOneOf(id) == {r \in Requests : deleted[r].id = id}
DeleteAnswered(r, status) ==
    responses[r].op = "deleteProduct" /\ responses[r].status = status

\* C11: of the deleteProduct requests that found the same product and then ran
\* deleteOne on it, in whatever interleaving, exactly one answers 200 and
\* every other 404; a request answers 200 only if its own deleteOne removed
\* the record.
C11_OneDeleteSucceeds ==
    /\ \A r \in Requests :
            DeleteAnswered(r, 200) => deleted[r].id # 0 /\ deleted[r].deletedCount = 1
    /\ \A id \in 1..(nextId - 1) :
            DeleteOneOf(id) # {} =>
                /\ Cardinality({r \in DeleteOneOf(id) : DeleteAnswered(r, 200)}) = 1
                /\ \A r \in DeleteOneOf(id) :
                        DeleteAnswered(r, 200) \/ DeleteAnswered(r, 404)
                /\ id \notin DOMAIN products

\* two requests found the same product before either deleted it, and both
\* have answered: the later findOne came before the earlier response
C11_Witness ==
    \E r, s \in Requests :
        /\ r < s
        /\ deleted[r].id # 0 /\ deleted[r].id = deleted[s].id
        /\ DeleteAnswered(r, 200) /\ DeleteAnswered(s, 404)
====
